---- MODULE Spec2Model ----
(***************************************************************************)
(* Local persistence and reconciliation engine of the Jade scene: the     *)
(* IndexedDB stores of utils/db (src/unnamed/part_003, lines 308-401) and *)
(* the controller App (src/unnamed/part_000 and src/unnamed/part_001, two *)
(* copies of App.tsx that differ in the first-run branch of init and in   *)
(* the exporter).                                                          *)
(*                                                                         *)
(* Encodings.                                                              *)
(*   string url      a record [k, c, s]: k = "" is the empty string '',    *)
(*                   "path" a static path shipped with the application,    *)
(*                   "blob" an object URL made by URL.createObjectURL in   *)
(*                   session s for the binary c, "data" an inline payload. *)
(*   asset id        a natural number; 0 stands for the empty string ''    *)
(*                   and n > 0 for the n-th value of crypto.randomUUID().  *)
(*   optional field  <<>> when the property is absent (undefined) and      *)
(*                   <<v>> when it holds v.                                *)
(*   binary          a natural number naming the File the user picked.     *)
(***************************************************************************)
EXTENDS Integers, Sequences, FiniteSets, TLC

\* ------------------------------------------------------------------ bounds

\* User requests (handler invocations and page reloads) in one behaviour of Spec.
MaxOps == 3

\* Stars made by the fallback generator (the code makes 20).
FallbackStars == 2

\* ------------------------------------------------------------- data model

None == <<>>

Some(v) == <<v>>

IsSome(o) == Len(o) > 0

Get(o) == o[1]

EmptyUrl == [k |-> "", c |-> 0, s |-> 0]

StaticUrl(n) == [k |-> "path", c |-> n, s |-> 0]

BlobUrl(b, sess) == [k |-> "blob", c |-> b, s |-> sess]

\* An inline data: URL carrying the binary c.
DataUrl(c) == [k |-> "data", c |-> c, s |-> 0]

\* JavaScript truthiness of a string: only '' is falsy.
Truthy(u) == u # EmptyUrl

\* The empty asset id '' (p.assetId || '').
NoAssetId == 0

\* JavaScript truthiness of an asset id string.
TruthyId(a) == a # NoAssetId

StarData(id, position, images, imageAssetIds, text, isActive, viewCount) ==
    [id |-> id, position |-> position, images |-> images,
     imageAssetIds |-> imageAssetIds, text |-> text,
     isActive |-> isActive, viewCount |-> viewCount]

Song(id, name, url, assetId) ==
    [id |-> id, name |-> name, url |-> url, assetId |-> assetId]

GameState(stars, playlist, playbackCount) ==
    [stars |-> stars, playlist |-> playlist, playbackCount |-> playbackCount]

\* ------------------------------------------------------------ seed (input)

\* data/initialData.ts as shipped: no stars, no songs, counter 0.
SeedShipped == [stars |-> <<>>, playlist |-> <<>>, playbackCount |-> 0]

\* data/initialData.ts after an exported snapshot was pasted into it: a star
\* with an empty and a static image reference, a star never activated, and a
\* playlist of seven songs (one without a playable url) at counter 25.
SeedPasted ==
    [stars |-> << StarData(0, 1, <<EmptyUrl, StaticUrl(1)>>, None, Some("memory"), TRUE, 0),
                  StarData(1, 2, <<>>, None, None, FALSE, 0) >>,
     playlist |-> << Song(1, 1, StaticUrl(11), None), Song(2, 2, EmptyUrl, None),
                     Song(3, 3, StaticUrl(13), None), Song(4, 4, StaticUrl(14), None),
                     Song(5, 5, StaticUrl(15), None), Song(6, 6, StaticUrl(16), None),
                     Song(7, 7, StaticUrl(17), None) >>,
     playbackCount |-> 25]

Seeds == {SeedShipped, SeedPasted}

\* data/initialData.ts with a small hand-written scene: an activated star with
\* a static image, a star never activated, a song played from a static path
\* and a song entry whose url was left empty.
SeedSparse ==
    [stars |-> << StarData(0, 1, <<StaticUrl(1)>>, None, Some("memory"), TRUE, 0),
                  StarData(1, 2, <<>>, None, None, FALSE, 0) >>,
     playlist |-> << Song(1, 1, StaticUrl(11), None), Song(2, 2, EmptyUrl, None) >>,
     playbackCount |-> 3]

\* data/initialData.ts with an export of part_001 pasted in which one image
\* was edited back to a static path: a star with an inline and a static
\* image, and a song played from a static path.
SeedInline ==
    [stars |-> << StarData(0, 1, <<DataUrl(5), StaticUrl(1)>>, None, Some("memory"), TRUE, 0) >>,
     playlist |-> << Song(1, 1, StaticUrl(11), None) >>,
     playbackCount |-> 3]

\* The two copies of App.tsx.
Variants == {"part_000", "part_001"}

\* Files the user can pick (image or audio); the number names the binary.
Files == {1}

\* Texts the user can type into the form.
Texts == {"", "story"}


\* The 2x2 grid of the form holds at most four images.
MaxTempImages == 4

\* ------------------------------------------------------------------ state

VARIABLES
    seed,              \* data/initialData.ts of this build
    variant,           \* which copy of App.tsx this build runs
    dbOpens,           \* whether indexedDB.open succeeds in this browser
    assets,            \* object store 'assets': asset id -> binary
    docStore,          \* object store 'state', key 'current': None or Some(GameState)
    session,           \* number of the page load
    stars,             \* useState stars
    playlist,          \* useState playlist
    currentSongIndex,  \* useState currentSongIndex
    playbackCount,     \* useState playbackCount
    isDataLoaded,      \* useState isDataLoaded
    initPc,            \* position of init(): "load", "assets", or how it ended:
                       \* "first-run", "restored", "failed"
    savedState,        \* the Document init() holds between its awaits
    isUploadModalOpen, \* useState isUploadModalOpen
    editingStarId,     \* useState editingStarId: None or Some(id)
    tempImages,        \* useState tempImages
    tempText,          \* useState tempText
    inflight,          \* handlers suspended at await DB.saveAsset, oldest first
    writes,            \* DB.saveGameState calls not yet settled, oldest first
    alert,             \* the last message shown with alert(), "" when none
    uuid,              \* values crypto.randomUUID() has returned so far
    genId,             \* values generateId() has returned so far
    exported,          \* the text handleExportData last produced: None or
                       \* Some(snapshot)
    ops                \* user requests still allowed in this behaviour

vars == <<seed, variant, dbOpens, exported, assets, docStore, session, stars, playlist,
          currentSongIndex, playbackCount, isDataLoaded, initPc, savedState,
          isUploadModalOpen, editingStarId, tempImages, tempText, inflight,
          writes, alert, uuid, genId, ops>>

storeVars == <<assets, docStore>>

modelVars == <<stars, playlist, currentSongIndex, playbackCount>>

formVars == <<isUploadModalOpen, editingStarId, tempImages, tempText>>

\* What is fixed for a whole behaviour: the build and the browser it runs in.
buildVars == <<seed, variant, dbOpens>>

STATIC_STARS == seed.stars

STATIC_PLAYLIST == seed.playlist

INITIAL_PLAYBACK_COUNT == seed.playbackCount

\* ------------------------------------------------------------ utils/db

\* How a storage call can settle: it resolves or it rejects.
Outcomes == {"ok", "fail"}

\* openDB: every call of utils/db awaits it first, and rejects when
\* indexedDB.open fails.
openDB == IF dbOpens THEN Outcomes ELSE {"fail"}

\* getAsset: request.result of store.get(id), undefined when there is no entry.
getAsset(store, id) == IF id \in DOMAIN store THEN Some(store[id]) ELSE None

\* loadGameState: request.result || null.
loadGameState(store) == store

\* saveGameState with the runtime blob URLs stripped before the put.
saveGameStateStripped(state) ==
    Some([state EXCEPT !.stars =
            [i \in 1..Len(state.stars) |->
                [state.stars[i] EXCEPT !.images = <<>>]]])

\* saveGameState: store.put(state, 'current') replaces the one record.
saveGameState(state) == Some(state)

\* saveAsset putting every blob under one key.
saveAssetOneKey(store, id, blob) ==
    [a \in DOMAIN store \cup {1} |-> IF a = 1 THEN blob ELSE store[a]]

\* saveAsset: store.put(blob, id) under the fresh id.
saveAsset(store, id, blob) ==
    [a \in DOMAIN store \cup {id} |-> IF a = id THEN blob ELSE store[a]]

\* ------------------------------------------------------- App: first render

\* A position drawn with Math.random() by the i-th star of the mount of
\* session sess: a value no other draw returns.
RandomPosition(sess, i) == 100 * sess + i

generateRandomStars(sess) ==
    [i \in 1..FallbackStars |->
        StarData(i - 1, RandomPosition(sess, i), <<>>, None, None, FALSE, 0)]

initialStarState(sess) ==
    IF Len(STATIC_STARS) > 0 THEN STATIC_STARS ELSE generateRandomStars(sess)

\* ------------------------------------------------------- App: reconciler

\* RestoreStar returning the star with its view counter started over.
RestoreStarUnviewed(s, store, sess) == [s EXCEPT !.viewCount = 0]

\* One star of the saved Document, its asset ids resolved against the store.
RestoreStar(s, store, sess) ==
    LET ids      == IF IsSome(s.imageAssetIds) THEN Get(s.imageAssetIds) ELSE <<>>
        blobUrls == [i \in 1..Len(ids) |->
                        IF IsSome(getAsset(store, ids[i]))
                        THEN BlobUrl(Get(getAsset(store, ids[i])), sess)
                        ELSE EmptyUrl]
        mixed    == [i \in 1..Len(s.images) |->
                        IF i <= Len(blobUrls) /\ Truthy(blobUrls[i])
                        THEN blobUrls[i] ELSE s.images[i]]
    IN  IF Len(ids) > 0
        THEN [s EXCEPT !.images = SelectSeq(mixed, Truthy)]
        ELSE s

\* restoredStars keeping only the activated stars.
restoredStarsActiveOnly(state, store, sess) ==
    SelectSeq([i \in 1..Len(state.stars) |-> RestoreStar(state.stars[i], store, sess)],
              LAMBDA st : st.isActive)

restoredStars(state, store, sess) ==
    [i \in 1..Len(state.stars) |-> RestoreStar(state.stars[i], store, sess)]

\* One song of the saved Document, its asset id resolved against the store.
RestoreSong(s, store, sess) ==
    IF IsSome(s.assetId) /\ TruthyId(Get(s.assetId))
       /\ IsSome(getAsset(store, Get(s.assetId)))
    THEN [s EXCEPT !.url = BlobUrl(Get(getAsset(store, Get(s.assetId))), sess)]
    ELSE s

HasUrl(s) == Truthy(s.url)

\* restoredPlaylist without .filter(s => s.url).
restoredPlaylistUnfiltered(state, store, sess) ==
    [i \in 1..Len(state.playlist) |-> RestoreSong(state.playlist[i], store, sess)]

restoredPlaylist(state, store, sess) ==
    SelectSeq([i \in 1..Len(state.playlist) |->
                  RestoreSong(state.playlist[i], store, sess)], HasUrl)

\* Whether reconciling the Document calls DB.getAsset at all.
FetchesAssets(state) ==
    \/ \E i \in 1..Len(state.stars) :
          /\ IsSome(state.stars[i].imageAssetIds)
          /\ Len(Get(state.stars[i].imageAssetIds)) > 0
    \/ \E i \in 1..Len(state.playlist) :
          /\ IsSome(state.playlist[i].assetId)
          /\ TruthyId(Get(state.playlist[i].assetId))

\* SITUATION B of part_000: the seed is saved when it has a star. part_001
\* has no such branch.
PromotesSeed ==
    variant = "part_000" /\ Len(STATIC_STARS) > 0

SeedDocument ==
    GameState(STATIC_STARS, STATIC_PLAYLIST, INITIAL_PLAYBACK_COUNT)

\* ------------------------------------------------------------------- Init

\* The useState initial values of a mount in session sess.
FirstRender(sess) ==
    [stars |-> initialStarState(sess), playlist |-> STATIC_PLAYLIST,
     currentSongIndex |-> 0, playbackCount |-> INITIAL_PLAYBACK_COUNT]

\* The first page load of a build with one of `seeds` in a browser where
\* the database opens or not.
InitFrom(seeds, opens, budget) ==
    /\ seed \in seeds
    /\ variant \in Variants
    /\ dbOpens = opens
    /\ exported = None
    /\ assets = <<>>
    /\ docStore = None
    /\ uuid = 0
    /\ genId = 0
    /\ ops = budget
    /\ session = 1
    /\ stars = FirstRender(1).stars
    /\ playlist = FirstRender(1).playlist
    /\ currentSongIndex = FirstRender(1).currentSongIndex
    /\ playbackCount = FirstRender(1).playbackCount
    /\ isDataLoaded = FALSE
    /\ initPc = "load"
    /\ savedState = None
    /\ isUploadModalOpen = FALSE
    /\ editingStarId = None
    /\ tempImages = <<>>
    /\ tempText = ""
    /\ inflight = <<>>
    /\ writes = <<>>
    /\ alert = ""

InitWith(budget) == InitFrom(Seeds, TRUE, budget)

Init == InitWith(MaxOps)

\* ---------------------------------------------------------- init() steps

\* InitLoad with setIsDataLoaded(true) at the end of try instead of in finally.
InitLoadNoFinally ==
    /\ initPc = "load"
    /\ \E outcome \in openDB :
          \/ /\ outcome = "fail"
             /\ initPc' = "failed"
             /\ UNCHANGED <<isDataLoaded, savedState, writes>>
          \/ /\ outcome = "ok"
             /\ IsSome(loadGameState(docStore))
             /\ savedState' = loadGameState(docStore)
             /\ initPc' = "assets"
             /\ UNCHANGED <<isDataLoaded, writes>>
          \/ /\ outcome = "ok"
             /\ ~IsSome(loadGameState(docStore))
             /\ writes' = IF PromotesSeed THEN Append(writes, SeedDocument) ELSE writes
             /\ initPc' = "first-run"
             /\ isDataLoaded' = TRUE
             /\ UNCHANGED savedState
    /\ UNCHANGED <<buildVars, storeVars, session, modelVars, formVars,
                   inflight, alert, uuid, genId, ops>>
    /\ UNCHANGED exported

\* await DB.loadGameState() settles.
InitLoad ==
    /\ initPc = "load"
    /\ \E outcome \in openDB :
          \/ /\ outcome = "fail"
             /\ initPc' = "failed"
             /\ isDataLoaded' = TRUE
             /\ UNCHANGED <<savedState, writes>>
          \/ /\ outcome = "ok"
             /\ IsSome(loadGameState(docStore))
             /\ savedState' = loadGameState(docStore)
             /\ initPc' = "assets"
             /\ UNCHANGED <<isDataLoaded, writes>>
          \/ /\ outcome = "ok"
             /\ ~IsSome(loadGameState(docStore))
             /\ writes' = IF PromotesSeed THEN Append(writes, SeedDocument) ELSE writes
             /\ initPc' = "first-run"
             /\ isDataLoaded' = TRUE
             /\ UNCHANGED savedState
    /\ UNCHANGED <<buildVars, storeVars, session, modelVars, formVars,
                   inflight, alert, uuid, genId, ops>>
    /\ UNCHANGED exported

\* InitAssets with setStars called before the playlist's assets are awaited.
InitAssetsPartial ==
    /\ initPc = "assets"
    /\ \E outcome \in openDB :
          \/ /\ outcome = "fail"
             /\ FetchesAssets(Get(savedState))
             /\ initPc' = "failed"
             /\ stars' = restoredStars(Get(savedState), assets, session)
             /\ UNCHANGED <<playlist, currentSongIndex, playbackCount>>
          \/ /\ outcome = "ok"
             /\ stars' = restoredStars(Get(savedState), assets, session)
             /\ playlist' = restoredPlaylist(Get(savedState), assets, session)
             /\ playbackCount' = Get(savedState).playbackCount
             /\ initPc' = "restored"
             /\ UNCHANGED currentSongIndex
    /\ isDataLoaded' = TRUE
    /\ savedState' = None
    /\ UNCHANGED <<buildVars, storeVars, session, formVars, inflight, writes,
                   alert, uuid, genId, ops>>
    /\ UNCHANGED exported

\* The DB.getAsset calls of both Promise.all settle.
InitAssets ==
    /\ initPc = "assets"
    /\ \E outcome \in openDB :
          \/ /\ outcome = "fail"
             /\ FetchesAssets(Get(savedState))
             /\ initPc' = "failed"
             /\ UNCHANGED modelVars
          \/ /\ outcome = "ok"
             /\ stars' = restoredStars(Get(savedState), assets, session)
             /\ playlist' = restoredPlaylist(Get(savedState), assets, session)
             /\ playbackCount' = Get(savedState).playbackCount
             /\ initPc' = "restored"
             /\ UNCHANGED currentSongIndex
    /\ isDataLoaded' = TRUE
    /\ savedState' = None
    /\ UNCHANGED <<buildVars, storeVars, session, formVars, inflight, writes,
                   alert, uuid, genId, ops>>
    /\ UNCHANGED exported

\* ------------------------------------------------------ storage settles

\* WriteSettles with the live model taken back to the first render when the
\* write fails.
WriteSettlesRollback ==
    /\ writes # <<>>
    /\ \E outcome \in openDB :
          \/ /\ outcome = "ok"
             /\ docStore' = saveGameState(Head(writes))
             /\ UNCHANGED modelVars
          \/ /\ outcome = "fail"
             /\ stars' = FirstRender(session).stars
             /\ playlist' = FirstRender(session).playlist
             /\ playbackCount' = FirstRender(session).playbackCount
             /\ UNCHANGED <<docStore, currentSongIndex>>
    /\ writes' = Tail(writes)
    /\ UNCHANGED <<buildVars, assets, session, isDataLoaded, initPc,
                   savedState, formVars, inflight, alert, uuid, genId, ops>>
    /\ UNCHANGED exported

\* WriteSettles with the newest call settling first.
WriteSettlesNewestFirst ==
    /\ writes # <<>>
    /\ \E outcome \in openDB :
          docStore' = IF outcome = "ok" THEN saveGameState(writes[Len(writes)])
                      ELSE docStore
    /\ writes' = SubSeq(writes, 1, Len(writes) - 1)
    /\ UNCHANGED <<buildVars, assets, session, modelVars, isDataLoaded, initPc,
                   savedState, formVars, inflight, alert, uuid, genId, ops>>
    /\ UNCHANGED exported

\* The oldest DB.saveGameState call settles.
WriteSettles ==
    /\ writes # <<>>
    /\ \E outcome \in openDB :
          docStore' = IF outcome = "ok" THEN saveGameState(Head(writes)) ELSE docStore
    /\ writes' = Tail(writes)
    /\ UNCHANGED <<buildVars, assets, session, modelVars, isDataLoaded, initPc,
                   savedState, formVars, inflight, alert, uuid, genId, ops>>
    /\ UNCHANGED exported

\* The user reloads the page: React state starts over, the stores stay.
Reload ==
    /\ ops > 0
    /\ ops' = ops - 1
    /\ session' = session + 1
    /\ stars' = FirstRender(session + 1).stars
    /\ playlist' = FirstRender(session + 1).playlist
    /\ currentSongIndex' = FirstRender(session + 1).currentSongIndex
    /\ playbackCount' = FirstRender(session + 1).playbackCount
    /\ isDataLoaded' = FALSE
    /\ initPc' = "load"
    /\ savedState' = None
    /\ isUploadModalOpen' = FALSE
    /\ editingStarId' = None
    /\ tempImages' = <<>>
    /\ tempText' = ""
    /\ inflight' = <<>>
    /\ writes' = <<>>
    /\ alert' = ""
    /\ UNCHANGED <<buildVars, storeVars, uuid, genId>>
    /\ UNCHANGED exported

\* ------------------------------------------------- derived progression

Min(a, b) == IF a <= b THEN a ELSE b

\* maxPlaylistSize without Math.min.
maxPlaylistSizeUncapped(count) == 5 + (count \div 10)

maxPlaylistSize(count) == Min(10, 5 + (count \div 10))

isContinuousPlayUnlocked(count) == count >= 60

\* The gate with > for >=.
PlaylistOverfull(list, count) == Len(list) > maxPlaylistSize(count)

\* The gate of handleMusicUpload: playlist.length >= maxPlaylistSize.
PlaylistFull(list, count) == Len(list) >= maxPlaylistSize(count)

\* --------------------------------------------------------- pure helpers

\* A value of generateId(): a string no seed id equals.
GeneratedId(n) == 1000 + n

\* The closure of a handler suspended at await DB.saveAsset: the state values
\* of the render that created the handler.
Closure(kind, file) ==
    [kind |-> kind, file |-> file, stars |-> stars, playlist |-> playlist,
     playbackCount |-> playbackCount, editingStarId |-> editingStarId,
     tempImages |-> tempImages, tempText |-> tempText]

TempImage(url, file, assetId) == [url |-> url, file |-> file, assetId |-> assetId]

StarIds(list) == {list[i].id : i \in 1..Len(list)}

\* stars.find(s => s.id === id)
FindStar(list, id) ==
    list[CHOOSE i \in 1..Len(list) :
            list[i].id = id /\ \A j \in 1..(i - 1) : list[j].id # id]

\* handleStarView: the star's viewCount raised by one.
ViewedStars(list, id) ==
    [i \in 1..Len(list) |->
        IF list[i].id = id
        THEN [list[i] EXCEPT !.viewCount = list[i].viewCount + 1]
        ELSE list[i]]

\* handleStarClick: the star's images and asset ids as TempImages.
existingImages(star) ==
    [i \in 1..Len(star.images) |->
        TempImage(star.images[i], None,
                  IF IsSome(star.imageAssetIds) /\ i <= Len(Get(star.imageAssetIds))
                  THEN Some(Get(star.imageAssetIds)[i]) ELSE None)]

\* Number of TempImages with a File among the first n.
RECURSIVE FilesBefore(_, _)
FilesBefore(temp, n) ==
    IF n = 0 THEN 0
    ELSE FilesBefore(temp, n - 1) + (IF IsSome(temp[n].file) THEN 1 ELSE 0)

\* processedImages pairing each File with the id after the one it was saved
\* under.
processedImagesShifted(temp, last) ==
    [i \in 1..Len(temp) |->
        IF IsSome(temp[i].file)
        THEN [url |-> temp[i].url, file |-> None,
              assetId |-> Some(last + FilesBefore(temp, i) + 1)]
        ELSE [url |-> temp[i].url, file |-> None, assetId |-> temp[i].assetId]]

\* handleLaunchStar: each TempImage with a File gets the id DB.saveAsset
\* returned (the ids after `last`, in call order), the others keep theirs.
processedImages(temp, last) ==
    [i \in 1..Len(temp) |->
        IF IsSome(temp[i].file)
        THEN TempImage(temp[i].url, None, Some(last + FilesBefore(temp, i)))
        ELSE TempImage(temp[i].url, None, temp[i].assetId)]

finalImageUrls(processed) == [i \in 1..Len(processed) |-> processed[i].url]

\* p.assetId || ''
finalAssetIds(processed) ==
    [i \in 1..Len(processed) |->
        IF IsSome(processed[i].assetId) /\ TruthyId(Get(processed[i].assetId))
        THEN Get(processed[i].assetId) ELSE NoAssetId]

\* handleLaunchStar: the edited star replaced, the others kept.
LaunchedStars(list, id, processed, text) ==
    [i \in 1..Len(list) |->
        IF list[i].id = id
        THEN [list[i] EXCEPT !.isActive = TRUE,
                             !.images = finalImageUrls(processed),
                             !.imageAssetIds = Some(finalAssetIds(processed)),
                             !.text = Some(text),
                             !.viewCount = 0]
        ELSE list[i]]

\* The asset store after the first n Files of temp were saved under the ids
\* after `last`.
RECURSIVE SavedFiles(_, _, _, _)
SavedFiles(store, temp, last, n) ==
    IF n = 0 THEN store
    ELSE LET i == CHOOSE k \in 1..Len(temp) :
                     IsSome(temp[k].file) /\ FilesBefore(temp, k) = n
         IN  saveAsset(SavedFiles(store, temp, last, n - 1), last + n,
                       Get(temp[i].file))

RemoveAt(list, i) ==
    [j \in 1..(Len(list) - 1) |-> IF j < i THEN list[j] ELSE list[j + 1]]

\* What MusicPlayer passes to setPlaylist: the playlist with one song removed,
\* or reordered (its first song moved to the end).
PlaylistEdits(list) ==
    {RemoveAt(list, i) : i \in 1..Len(list)}
        \cup (IF Len(list) >= 2 THEN {Append(Tail(list), Head(list))} ELSE {})

\* saveGame: one more DB.saveGameState call in flight.
saveGame(newStars, newPlaylist, newPlaybackCount) ==
    Append(writes, GameState(newStars, newPlaylist, newPlaybackCount))

\* CanRequest with the UI rendered while init() is still running.
CanRequestWhileLoading == ops > 0

\* A handler can run: the UI is rendered and the budget allows a request.
CanRequest == isDataLoaded /\ ops > 0

\* ------------------------------------------------------------- export

\* The fetches one export makes: <<"img", i, j>> for image j of star i,
\* <<"song", i>> for song i. data: URLs are returned without a fetch.
FetchedImages(list) ==
    {<<"img", i, j>> : i \in 1..Len(list), j \in 1..MaxTempImages}

Fetches(starList, songList) ==
    {p \in FetchedImages(starList) :
        p[3] <= Len(starList[p[2]].images) /\ starList[p[2]].images[p[3]].k # "data"}
    \cup {<<"song", i>> : i \in {n \in 1..Len(songList) : songList[n].url.k # "data"}}

UrlAt(starList, songList, p) ==
    IF p[1] = "img" THEN starList[p[2]].images[p[3]] ELSE songList[p[2]].url

\* Fetches that cannot succeed: a blob: URL is revoked when the document
\* that made it is unloaded.
DeadFetches(starList, songList, sess) ==
    {p \in Fetches(starList, songList) :
        UrlAt(starList, songList, p).k = "blob" /\ UrlAt(starList, songList, p).s # sess}

\* response.blob() of a fetched URL: the binary behind a blob: URL, the file
\* under a static path, the page itself for ''.
FetchedBinary(u) == u.c

\* urlToBase64 returning '' when the fetch or the encoding fails.
urlToBase64OrEmpty(u, failed) ==
    IF u.k = "data" THEN u
    ELSE IF failed THEN EmptyUrl
    ELSE DataUrl(FetchedBinary(u))

urlToBase64(u, failed) ==
    IF u.k = "data" THEN u
    ELSE IF failed THEN u
    ELSE DataUrl(FetchedBinary(u))

\* part_001, cleanStars: one star with its images converted.
cleanStar(list, i, failing) ==
    [list[i] EXCEPT
        !.images = [j \in 1..Len(list[i].images) |->
                       urlToBase64(list[i].images[j], <<"img", i, j>> \in failing)],
        !.imageAssetIds = None]

\* cleanPlaylist keeping the song as it is but for its url.
cleanSongSpread(list, i, failing) ==
    [list[i] EXCEPT !.url = urlToBase64(list[i].url, <<"song", i>> \in failing)]

\* part_001, cleanPlaylist: one song with its url converted.
cleanSong(list, i, failing) ==
    Song(list[i].id, list[i].name,
         IF list[i].url.k # "data"
         THEN urlToBase64(list[i].url, <<"song", i>> \in failing)
         ELSE list[i].url,
         None)

\* "/assets/REPLACE_WITH_YOUR_FILENAME.jpg"
PlaceholderImage == [k |-> "path", c |-> 0, s |-> 0]

\* `/assets/${s.name}`
AssetsPath(name) == [k |-> "path", c |-> 100 + name, s |-> 0]

\* part_000, cleanStars: blob: URLs replaced by the placeholder path.
cleanStarPlaceholder(star) ==
    [star EXCEPT
        !.images = [j \in 1..Len(star.images) |->
                       IF star.images[j].k = "blob" THEN PlaceholderImage
                       ELSE star.images[j]],
        !.imageAssetIds = None]

\* part_000, cleanPlaylist: blob: URLs replaced by a path guessed from the name.
cleanSongPlaceholder(song) ==
    Song(song.id, song.name,
         IF song.url.k = "blob" THEN AssetsPath(song.name) ELSE song.url,
         None)

\* The exportString of part_001 (JSON.stringify leaves undefined fields out).
exportString(starList, songList, count, failing) ==
    GameState([i \in 1..Len(starList) |-> cleanStar(starList, i, failing)],
              [i \in 1..Len(songList) |-> cleanSong(songList, i, failing)],
              count)

\* The exportString of part_000.
exportStringPlaceholder(starList, songList, count) ==
    GameState([i \in 1..Len(starList) |-> cleanStarPlaceholder(starList[i])],
              [i \in 1..Len(songList) |-> cleanSongPlaceholder(songList[i])],
              count)

\* handleExportData. part_000 logs the text to the console; part_001 fetches
\* every asset (each fetch may fail and falls back to the url), then writes
\* the text to the clipboard, which may reject.
handleExportData ==
    /\ CanRequest
    /\ ops' = ops - 1
    /\ \/ /\ variant = "part_000"
          /\ exported' = Some(exportStringPlaceholder(stars, playlist, playbackCount))
          /\ alert' = "exported to console"
       \/ /\ variant = "part_001"
          /\ \E failing \in SUBSET Fetches(stars, playlist) :
                /\ DeadFetches(stars, playlist, session) \subseteq failing
                /\ \/ /\ exported' = Some(exportString(stars, playlist,
                                                       playbackCount, failing))
                      /\ alert' = "data copied"
                   \/ /\ alert' = "export failed"
                      /\ UNCHANGED exported
    /\ UNCHANGED <<buildVars, storeVars, session, modelVars, isDataLoaded,
                   initPc, savedState, formVars, inflight, writes, uuid, genId>>

\* ------------------------------------------------ synchronous handlers

handleStarView(id) ==
    /\ CanRequest
    /\ id \in StarIds(stars)
    /\ stars' = ViewedStars(stars, id)
    /\ writes' = saveGame(ViewedStars(stars, id), playlist, playbackCount)
    /\ ops' = ops - 1
    /\ UNCHANGED <<buildVars, storeVars, session, playlist, currentSongIndex,
                   playbackCount, isDataLoaded, initPc, savedState, formVars,
                   inflight, alert, uuid, genId>>
    /\ UNCHANGED exported

handleSongEnd ==
    /\ CanRequest
    /\ playbackCount' = playbackCount + 1
    /\ writes' = saveGame(stars, playlist, playbackCount + 1)
    /\ ops' = ops - 1
    /\ UNCHANGED <<buildVars, storeVars, session, stars, playlist,
                   currentSongIndex, isDataLoaded, initPc, savedState, formVars,
                   inflight, alert, uuid, genId>>
    /\ UNCHANGED exported

handlePlaylistUpdate(newPlaylist) ==
    /\ CanRequest
    /\ playlist' = newPlaylist
    /\ writes' = saveGame(stars, newPlaylist, playbackCount)
    /\ ops' = ops - 1
    /\ UNCHANGED <<buildVars, storeVars, session, stars, currentSongIndex,
                   playbackCount, isDataLoaded, initPc, savedState, formVars,
                   inflight, alert, uuid, genId>>
    /\ UNCHANGED exported

handleStarClick(id) ==
    /\ CanRequest
    /\ id \in StarIds(stars)
    /\ editingStarId' = Some(id)
    /\ tempImages' = existingImages(FindStar(stars, id))
    /\ tempText' = (IF IsSome(FindStar(stars, id).text)
                    THEN Get(FindStar(stars, id).text) ELSE "")
    /\ isUploadModalOpen' = TRUE
    /\ ops' = ops - 1
    /\ UNCHANGED <<buildVars, storeVars, session, modelVars, isDataLoaded,
                   initPc, savedState, inflight, writes, alert, uuid, genId>>
    /\ UNCHANGED exported

\* processFiles with one file picked or dropped.
processFiles(file) ==
    /\ CanRequest
    /\ isUploadModalOpen
    /\ MaxTempImages - Len(tempImages) > 0
    /\ tempImages' = Append(tempImages,
                            TempImage(BlobUrl(file, session), Some(file), None))
    /\ ops' = ops - 1
    /\ UNCHANGED <<buildVars, storeVars, session, modelVars, isDataLoaded,
                   initPc, savedState, isUploadModalOpen, editingStarId,
                   tempText, inflight, writes, alert, uuid, genId>>
    /\ UNCHANGED exported

removeTempImage(index) ==
    /\ CanRequest
    /\ isUploadModalOpen
    /\ index \in 1..Len(tempImages)
    /\ tempImages' = RemoveAt(tempImages, index)
    /\ ops' = ops - 1
    /\ UNCHANGED <<buildVars, storeVars, session, modelVars, isDataLoaded,
                   initPc, savedState, isUploadModalOpen, editingStarId,
                   tempText, inflight, writes, alert, uuid, genId>>
    /\ UNCHANGED exported

\* onChange of the textarea.
setTempText(text) ==
    /\ CanRequest
    /\ isUploadModalOpen
    /\ text # tempText
    /\ tempText' = text
    /\ ops' = ops - 1
    /\ UNCHANGED <<buildVars, storeVars, session, modelVars, isDataLoaded,
                   initPc, savedState, isUploadModalOpen, editingStarId,
                   tempImages, inflight, writes, alert, uuid, genId>>
    /\ UNCHANGED exported

\* The close button of the modal.
closeModal ==
    /\ CanRequest
    /\ isUploadModalOpen
    /\ isUploadModalOpen' = FALSE
    /\ ops' = ops - 1
    /\ UNCHANGED <<buildVars, storeVars, session, modelVars, isDataLoaded,
                   initPc, savedState, editingStarId, tempImages, tempText,
                   inflight, writes, alert, uuid, genId>>
    /\ UNCHANGED exported

\* ------------------------------------------------ asynchronous handlers

\* handleMusicUpload up to await DB.saveAsset(file): a full playlist is
\* refused with an alert, else the handler suspends.
handleMusicUpload(file) ==
    /\ CanRequest
    /\ IF PlaylistFull(playlist, playbackCount)
       THEN /\ alert' = "playlist full"
            /\ UNCHANGED inflight
       ELSE /\ inflight' = Append(inflight, Closure("upload", Some(file)))
            /\ UNCHANGED alert
    /\ ops' = ops - 1
    /\ UNCHANGED <<buildVars, storeVars, session, modelVars, isDataLoaded,
                   initPc, savedState, formVars, writes, uuid, genId>>
    /\ UNCHANGED exported

\* The song handleMusicUpload makes of the file and its asset id.
newSong(cl, assetId, sess, n) ==
    Song(GeneratedId(n), Get(cl.file), BlobUrl(Get(cl.file), sess), Some(assetId))

\* [...playlist, newSong] with the playlist in memory when the await returns.
newPlaylistOnLatest(cl, song) == Append(playlist, song)

\* [...playlist, newSong] with the playlist of the handler's closure.
newPlaylist(cl, song) == Append(cl.playlist, song)

\* handleMusicUpload after DB.saveAsset resolved with assetId.
FinishUpload(cl, assetId) ==
    LET list == newPlaylist(cl, newSong(cl, assetId, session, genId + 1))
    IN  /\ playlist' = list
        /\ currentSongIndex' = Len(list) - 1
        /\ writes' = saveGame(cl.stars, list, cl.playbackCount)
        /\ genId' = genId + 1
        /\ UNCHANGED <<stars, playbackCount, formVars, alert>>

\* handleLaunchStar after every DB.saveAsset resolved; `last` is the last
\* asset id in use before them.
FinishLaunch(cl, last) ==
    LET newStars == LaunchedStars(cl.stars, Get(cl.editingStarId),
                                  processedImages(cl.tempImages, last), cl.tempText)
    IN  /\ stars' = newStars
        /\ writes' = saveGame(newStars, cl.playlist, cl.playbackCount)
        /\ tempImages' = <<>>
        /\ tempText' = ""
        /\ editingStarId' = None
        /\ isUploadModalOpen' = FALSE
        /\ UNCHANGED <<playlist, currentSongIndex, playbackCount>>

\* handleLaunchStar: with no File to save, Promise.all resolves without
\* leaving the task and the handler runs to its end; else it suspends.
handleLaunchStar ==
    /\ CanRequest
    /\ isUploadModalOpen
    /\ IsSome(editingStarId)
    /\ IF FilesBefore(tempImages, Len(tempImages)) = 0
       THEN /\ FinishLaunch(Closure("launch", None), uuid)
            /\ UNCHANGED inflight
       ELSE /\ inflight' = Append(inflight, Closure("launch", None))
            /\ UNCHANGED <<modelVars, formVars, writes>>
    /\ ops' = ops - 1
    /\ UNCHANGED <<buildVars, storeVars, session, isDataLoaded, initPc,
                   savedState, alert, uuid, genId>>
    /\ UNCHANGED exported

\* AssetWriteSettles with the form reset in a finally block of
\* handleLaunchStar instead of at the end of its try block.
AssetWriteSettlesResetsForm ==
    /\ inflight # <<>>
    /\ inflight' = Tail(inflight)
    /\ LET cl == Head(inflight)
           n  == FilesBefore(cl.tempImages, Len(cl.tempImages))
       IN  \E outcome \in openDB :
              \/ /\ cl.kind = "upload"
                 /\ outcome = "ok"
                 /\ assets' = saveAsset(assets, uuid + 1, Get(cl.file))
                 /\ uuid' = uuid + 1
                 /\ FinishUpload(cl, uuid + 1)
              \/ /\ cl.kind = "upload"
                 /\ outcome = "fail"
                 /\ UNCHANGED <<assets, uuid, genId, modelVars, formVars, writes, alert>>
              \/ /\ cl.kind = "launch"
                 /\ outcome = "ok"
                 /\ assets' = SavedFiles(assets, cl.tempImages, uuid, n)
                 /\ uuid' = uuid + n
                 /\ FinishLaunch(cl, uuid)
                 /\ UNCHANGED <<genId, alert>>
              \/ /\ cl.kind = "launch"
                 /\ outcome = "fail"
                 /\ \E saved \in 0..(n - 1) :
                       /\ assets' = SavedFiles(assets, cl.tempImages, uuid, saved)
                       /\ uuid' = uuid + saved
                 /\ alert' = "error saving"
                 /\ isUploadModalOpen' = FALSE
                 /\ editingStarId' = None
                 /\ tempImages' = <<>>
                 /\ tempText' = ""
                 /\ UNCHANGED <<genId, modelVars, writes>>
    /\ UNCHANGED <<buildVars, docStore, session, isDataLoaded, initPc,
                   savedState, ops>>
    /\ UNCHANGED exported

\* The DB.saveAsset calls of the oldest suspended handler settle.
AssetWriteSettles ==
    /\ inflight # <<>>
    /\ inflight' = Tail(inflight)
    /\ LET cl == Head(inflight)
           n  == FilesBefore(cl.tempImages, Len(cl.tempImages))
       IN  \E outcome \in openDB :
              \/ /\ cl.kind = "upload"
                 /\ outcome = "ok"
                 /\ assets' = saveAsset(assets, uuid + 1, Get(cl.file))
                 /\ uuid' = uuid + 1
                 /\ FinishUpload(cl, uuid + 1)
              \/ /\ cl.kind = "upload"
                 /\ outcome = "fail"
                 /\ UNCHANGED <<assets, uuid, genId, modelVars, formVars, writes, alert>>
              \/ /\ cl.kind = "launch"
                 /\ outcome = "ok"
                 /\ assets' = SavedFiles(assets, cl.tempImages, uuid, n)
                 /\ uuid' = uuid + n
                 /\ FinishLaunch(cl, uuid)
                 /\ UNCHANGED <<genId, alert>>
              \/ /\ cl.kind = "launch"
                 /\ outcome = "fail"
                 /\ \E saved \in 0..(n - 1) :
                       /\ assets' = SavedFiles(assets, cl.tempImages, uuid, saved)
                       /\ uuid' = uuid + saved
                 /\ alert' = "error saving"
                 /\ UNCHANGED <<genId, modelVars, formVars, writes>>
    /\ UNCHANGED <<buildVars, docStore, session, isDataLoaded, initPc,
                   savedState, ops>>
    /\ UNCHANGED exported

\* An entry of the asset store is lost outside the application (the store is
\* cleared externally).
ExternalClear(id) ==
    /\ ops > 0
    /\ id \in DOMAIN assets
    /\ assets' = [a \in DOMAIN assets \ {id} |-> assets[a]]
    /\ ops' = ops - 1
    /\ UNCHANGED <<buildVars, docStore, session, modelVars, isDataLoaded,
                   initPc, savedState, formVars, inflight, writes, alert,
                   uuid, genId>>
    /\ UNCHANGED exported

AssetIdsInUse == 1..uuid

Next ==
    \/ InitLoad
    \/ InitAssets
    \/ WriteSettles
    \/ AssetWriteSettles
    \/ Reload
    \/ \E id \in StarIds(stars) : handleStarView(id)
    \/ handleSongEnd
    \/ \E list \in PlaylistEdits(playlist) : handlePlaylistUpdate(list)
    \/ \E id \in StarIds(stars) : handleStarClick(id)
    \/ \E file \in Files : processFiles(file)
    \/ \E index \in 1..Len(tempImages) : removeTempImage(index)
    \/ \E text \in Texts : setTempText(text)
    \/ closeModal
    \/ \E file \in Files : handleMusicUpload(file)
    \/ handleLaunchStar
    \/ \E id \in AssetIdsInUse : ExternalClear(id)

Spec == Init /\ [][Next]_vars

\* ------------------------------------------------- several page loads
\* The build with the pasted seed run by part_001, followed over more user
\* requests than Spec allows, with the requests that edit and view stars.

MaxDeepOps == 6

InitDeep ==
    /\ InitWith(MaxDeepOps)
    /\ seed = SeedPasted
    /\ variant = "part_001"

NextDeep ==
    \/ InitLoad
    \/ InitAssets
    \/ WriteSettles
    \/ AssetWriteSettles
    \/ Reload
    \/ \E id \in StarIds(stars) : handleStarView(id)
    \/ \E id \in StarIds(stars) : handleStarClick(id)
    \/ \E file \in Files : processFiles(file)
    \/ handleLaunchStar
    \/ \E id \in AssetIdsInUse : ExternalClear(id)

DeepSpec == InitDeep /\ [][NextDeep]_vars

\* ------------------------------------------------------------- startup
\* No timeout or cancellation exists: every storage call of init() settles,
\* so each of its two steps is taken once it is enabled.

MaxLiveOps == 2

FairSpec ==
    /\ InitWith(MaxLiveOps)
    /\ [][Next]_vars
    /\ WF_vars(InitLoad)
    /\ WF_vars(InitAssets)

\* ------------------------------------------------- store unavailable
\* A browser where indexedDB.open fails: every call of utils/db rejects.

MaxNoDbOps == 3

InitNoDb == InitFrom(Seeds, FALSE, MaxNoDbOps)

NextNoDb ==
    \/ InitLoad
    \/ WriteSettles
    \/ AssetWriteSettles
    \/ Reload
    \/ \E id \in StarIds(stars) : handleStarView(id)
    \/ handleSongEnd
    \/ \E id \in StarIds(stars) : handleStarClick(id)
    \/ \E file \in Files : processFiles(file)
    \/ \E file \in Files : handleMusicUpload(file)
    \/ handleLaunchStar

NoDbSpec == InitNoDb /\ [][NextNoDb]_vars

\* ---------------------------------------------------------- asset store
\* The build as shipped, with two different audio files to add and the
\* requests that write, read and lose assets.

MaxAssetOps == 4

AudioFiles == {1, 2}

InitAssetStore == InitFrom({SeedShipped}, TRUE, MaxAssetOps)

NextAssetStore ==
    \/ InitLoad
    \/ InitAssets
    \/ WriteSettles
    \/ AssetWriteSettles
    \/ Reload
    \/ \E file \in AudioFiles : handleMusicUpload(file)
    \/ \E id \in AssetIdsInUse : ExternalClear(id)

AssetStoreSpec == InitAssetStore /\ [][NextAssetStore]_vars

\* -------------------------------------------------------------- export
\* The builds with the shipped seed and with a seed of inline and static
\* references, with the requests that add assets and export the model.

MaxExportOps == 4

InitExport == InitFrom({SeedShipped, SeedInline}, TRUE, MaxExportOps)

NextExport ==
    \/ InitLoad
    \/ InitAssets
    \/ WriteSettles
    \/ AssetWriteSettles
    \/ Reload
    \/ \E id \in StarIds(stars) : handleStarClick(id)
    \/ \E file \in Files : processFiles(file)
    \/ handleLaunchStar
    \/ \E file \in Files : handleMusicUpload(file)
    \/ handleExportData

ExportSpec == InitExport /\ [][NextExport]_vars

\* ----------------------------------------------------------- round trip
\* Page loads and exports with no mutation request at all: the live model is
\* what startup made of the seed.

MaxRoundTripOps == 3

InitRoundTrip ==
    InitFrom({SeedShipped, SeedSparse, SeedInline}, TRUE, MaxRoundTripOps)

NextRoundTrip ==
    \/ InitLoad
    \/ InitAssets
    \/ WriteSettles
    \/ Reload
    \/ handleExportData

RoundTripSpec == InitRoundTrip /\ [][NextRoundTrip]_vars

\* ------------------------------------------------------------- overlap
\* One page load followed over more requests than Spec allows. The modal of
\* the form covers the scene and the upload button (absolute inset-0 z-50),
\* so a star is opened or viewed and a song is added only while the modal is
\* closed; only activated stars are viewed.

MaxOverlapOps == 5

InitOverlap == InitWith(MaxOverlapOps)

NextOverlap ==
    \/ InitLoad
    \/ WriteSettles
    \/ AssetWriteSettles
    \/ \E id \in StarIds(stars) :
          ~isUploadModalOpen /\ FindStar(stars, id).isActive /\ handleStarView(id)
    \/ \E id \in StarIds(stars) : ~isUploadModalOpen /\ handleStarClick(id)
    \/ \E file \in Files : processFiles(file)
    \/ handleLaunchStar
    \/ closeModal
    \/ handleSongEnd
    \/ \E file \in Files : ~isUploadModalOpen /\ handleMusicUpload(file)

OverlapSpec == InitOverlap /\ [][NextOverlap]_vars

\* ------------------------------------------------------------- editing
\* One page load of the build with the pasted seed run by part_001, followed
\* over the requests that open, edit, launch and view stars, gated by the
\* modal as in OverlapSpec.

MaxEditOps == 6

InitEdit ==
    /\ InitWith(MaxEditOps)
    /\ seed = SeedPasted
    /\ variant = "part_001"

NextEdit ==
    \/ InitLoad
    \/ WriteSettles
    \/ AssetWriteSettles
    \/ \E id \in StarIds(stars) :
          ~isUploadModalOpen /\ FindStar(stars, id).isActive /\ handleStarView(id)
    \/ \E id \in StarIds(stars) : ~isUploadModalOpen /\ handleStarClick(id)
    \/ \E file \in Files : processFiles(file)
    \/ handleLaunchStar
    \/ closeModal

EditSpec == InitEdit /\ [][NextEdit]_vars

\* ----------------------------------------------------------- first run
\* The first page load of part_000 with a pasted or a hand-written seed in a
\* browser with an empty database: SITUATION B saves the seed without awaiting it, and the
\* user plays songs, views stars and uploads songs while that write is in
\* flight.

MaxFirstRunOps == 3

InitFirstRun ==
    /\ InitFrom({SeedPasted, SeedSparse}, TRUE, MaxFirstRunOps)
    /\ variant = "part_000"

NextFirstRun ==
    \/ InitLoad
    \/ WriteSettles
    \/ AssetWriteSettles
    \/ handleSongEnd
    \/ \E id \in StarIds(stars) : handleStarView(id)
    \/ \E file \in Files : handleMusicUpload(file)

FirstRunSpec == InitFirstRun /\ [][NextFirstRun]_vars

\* --------------------------------------------------------- progression
\* Builds whose seed carries any counter up to MaxSeedCount (a pasted export
\* carries the counter of the session it was exported from), with the
\* requests that move the counter.

MaxSeedCount == 60

MaxPlayOps == 3

CounterSeeds ==
    {[stars |-> <<>>, playlist |-> <<>>, playbackCount |-> c] : c \in 0..MaxSeedCount}

InitProgress == InitFrom(CounterSeeds, TRUE, MaxPlayOps)

NextProgress ==
    \/ InitLoad
    \/ InitAssets
    \/ WriteSettles
    \/ Reload
    \/ handleSongEnd

ProgressSpec == InitProgress /\ [][NextProgress]_vars

\* ------------------------------------------------------------ new build
\* data/initialData.ts is replaced (an export pasted into it) and the new
\* build is loaded in a browser that keeps the stores of the build before.

MaxUpgradeOps == 4

Redeploy ==
    /\ ops > 0
    /\ ops' = ops - 1
    /\ \E next \in Seeds \ {seed} :
          /\ seed' = next
          /\ stars' = (IF Len(next.stars) > 0 THEN next.stars
                       ELSE generateRandomStars(session + 1))
          /\ playlist' = next.playlist
          /\ playbackCount' = next.playbackCount
    /\ session' = session + 1
    /\ currentSongIndex' = 0
    /\ isDataLoaded' = FALSE
    /\ initPc' = "load"
    /\ savedState' = None
    /\ isUploadModalOpen' = FALSE
    /\ editingStarId' = None
    /\ tempImages' = <<>>
    /\ tempText' = ""
    /\ inflight' = <<>>
    /\ writes' = <<>>
    /\ alert' = ""
    /\ UNCHANGED <<variant, dbOpens, exported, storeVars, uuid, genId>>

InitUpgrade == InitWith(MaxUpgradeOps)

NextUpgrade ==
    \/ InitLoad
    \/ InitAssets
    \/ WriteSettles
    \/ Reload
    \/ Redeploy
    \/ handleSongEnd

UpgradeSpec == InitUpgrade /\ [][NextUpgrade]_vars

\* ================================================================ claims

\* One step of the live model that a handler working on the latest model can
\* make: the counter kept or raised by one, the playlist kept, edited or
\* extended by one song, at most one star replaced.
DerivedFromLatest ==
    /\ playbackCount' \in {playbackCount, playbackCount + 1}
    /\ \/ playlist' = playlist
       \/ playlist' \in PlaylistEdits(playlist)
       \/ /\ Len(playlist') = Len(playlist) + 1
          /\ SubSeq(playlist', 1, Len(playlist)) = playlist
    /\ Len(stars') = Len(stars)
    /\ Cardinality({i \in 1..Len(stars) : stars'[i] # stars[i]}) <= 1

\* C1: in every interleaving of mutation requests, also one issued while an
\* earlier request awaits its Asset Store write, each handler derives the new
\* stars, playlist and counter from the latest in-memory model, so that no
\* accepted mutation is overwritten by a value computed from an older
\* snapshot.
C1_HandlersUseLatestModel ==
    [][(isDataLoaded /\ isDataLoaded') => DerivedFromLatest]_vars

\* The images and the asset ids of every star that carries asset ids have the
\* same length.
DocumentAligned(doc) ==
    \A i \in 1..Len(doc.stars) :
        IsSome(doc.stars[i].imageAssetIds)
            => Len(doc.stars[i].images) = Len(Get(doc.stars[i].imageAssetIds))

\* C2: in every Document written to the Document Store, every entity that
\* carries an imageAssetIds list has images and imageAssetIds of the same
\* length.
C2_WrittenDocumentAligned ==
    IsSome(docStore) => DocumentAligned(Get(docStore))

\* init() sets the live model from the Document it loaded.
RestoreStep == initPc = "assets" /\ initPc' = "restored"

\* The handle reconciliation makes for asset id a, '' when it does not resolve.
FreshHandle(a) ==
    IF a \in DOMAIN assets THEN BlobUrl(assets[a], session) ELSE EmptyUrl

\* The image reference the Document holds at slot j of star d, '' when none.
PriorImage(d, j) == IF j <= Len(d.images) THEN d.images[j] ELSE EmptyUrl

\* C3: for every entity of the loaded Document with k asset identifiers,
\* reconciliation yields an images list of length exactly k, each slot a
\* freshly resolved handle or the prior image reference.
C3_RestoredLengthIsK ==
    [][RestoreStep =>
        \A i \in 1..Len(Get(savedState).stars) :
            LET d == Get(savedState).stars[i]
            IN  IsSome(d.imageAssetIds) =>
                  /\ i <= Len(stars')
                  /\ Len(stars'[i].images) = Len(Get(d.imageAssetIds))
                  /\ \A j \in 1..Len(stars'[i].images) :
                        \/ /\ Truthy(FreshHandle(Get(d.imageAssetIds)[j]))
                           /\ stars'[i].images[j] = FreshHandle(Get(d.imageAssetIds)[j])
                        \/ stars'[i].images[j] = PriorImage(d, j)]_vars

\* C4: when a loaded entity has asset identifier X at index i and the Asset
\* Store has no entry for X, reconciliation produces an empty image slot at
\* index i, and every entity of the Document is part of the live model.
C4_MissingAssetEmptySlot ==
    [][RestoreStep =>
        /\ Len(stars') = Len(Get(savedState).stars)
        /\ \A i \in 1..Len(Get(savedState).stars) :
              LET d == Get(savedState).stars[i]
              IN  /\ stars'[i].id = d.id
                  /\ IsSome(d.imageAssetIds) =>
                       \A j \in 1..Len(Get(d.imageAssetIds)) :
                          (/\ TruthyId(Get(d.imageAssetIds)[j])
                           /\ Get(d.imageAssetIds)[j] \notin DOMAIN assets)
                             => /\ j <= Len(stars'[i].images)
                                /\ stars'[i].images[j] = EmptyUrl]_vars

ExpectedSong(d) ==
    IF IsSome(d.assetId) /\ Get(d.assetId) \in DOMAIN assets
    THEN Song(d.id, d.name, BlobUrl(assets[Get(d.assetId)], session), d.assetId)
    ELSE d

\* C6: after reconciliation of a present Document the live playlist is the
\* Document's songs in their order, each with a fresh handle as url when its
\* assetId resolves and its prior url otherwise, without those whose url is
\* then empty.
C6_RestoredPlaylist ==
    [][RestoreStep =>
        playlist' = SelectSeq([i \in 1..Len(Get(savedState).playlist) |->
                                  ExpectedSong(Get(savedState).playlist[i])],
                              HasUrl)]_vars

\* A song of the live playlist plays from a handle made in this page load.
C6_Witness ==
    /\ initPc = "restored"
    /\ session > 1
    /\ \E i \in 1..Len(playlist) :
          playlist[i].url.k = "blob" /\ playlist[i].url.s = session

\* C7: in every startup the loading flag isDataLoaded eventually becomes true
\* and, within the page load, never returns to false, whether the Document
\* load returns absent, returns a Document or rejects, or an asset fetch
\* rejects.
C7_EventuallyLoaded ==
    /\ (~isDataLoaded) ~> isDataLoaded
    /\ [][(isDataLoaded /\ session' = session) => isDataLoaded']_vars

\* The UI is ready although reconciliation failed.
C7_Witness == isDataLoaded /\ initPc = "failed"

\* C8: if loadGameState or a getAsset call rejects during reconciliation, the
\* UI becomes ready with the live model exactly the seed snapshot (or the
\* generated fallback): none of stars, playlist and counter is restored.
C8_FailureKeepsSeed ==
    [][(initPc \in {"load", "assets"} /\ initPc' = "failed") =>
        /\ isDataLoaded'
        /\ stars' = (IF Len(seed.stars) > 0 THEN seed.stars
                     ELSE generateRandomStars(session))
        /\ playlist' = seed.playlist
        /\ playbackCount' = seed.playbackCount]_vars

\* Reconciliation failed on a Document whose stars differ from the first
\* render's.
C8_Witness ==
    /\ initPc = "failed"
    /\ IsSome(docStore)
    /\ Get(docStore).stars # stars
    /\ ops = MaxOps - 2

\* C9: when the Document load returns absent, the live model stays the seed;
\* with at least one seed entity a Document write with the seed's stars,
\* playlist and counter is issued, with none no write is issued.
C9_SeedPromoted ==
    [][(initPc = "load" /\ initPc' = "first-run") =>
        /\ stars' = stars /\ playlist' = playlist /\ playbackCount' = playbackCount
        /\ writes' = (IF Len(seed.stars) > 0
                      THEN Append(writes, GameState(seed.stars, seed.playlist,
                                                    seed.playbackCount))
                      ELSE writes)]_vars

\* C10: whenever the live playlist length is at least the capacity
\* min(10, 5 + floor(counter / 10)), an append-song request changes neither
\* the playlist, the current song index, the stars, the counter, the Asset
\* Store nor the Document Store, and starts no write.
C10_FullPlaylistRejects ==
    [][((\E file \in Files : handleMusicUpload(file))
            /\ Len(playlist) >= Min(10, 5 + (playbackCount \div 10))) =>
        UNCHANGED <<playlist, currentSongIndex, stars, playbackCount, assets,
                    docStore, inflight, writes>>]_vars

\* The 8th append at counter 25 was refused.
C10_Witness ==
    /\ alert = "playlist full"
    /\ playbackCount = 25
    /\ Len(playlist) = 7

\* floor(c / 10), by its defining inequalities.
FloorTenth(c) == CHOOSE k \in 0..c : 10 * k <= c /\ c < 10 * (k + 1)

\* C11: the capacity derived from the current counter c equals
\* min(10, 5 + floor(c / 10)), lies between 5 and 10 and never decreases as c
\* grows; the continuous-playback flag is true exactly when c >= 60.
C11_DerivedProgression ==
    /\ [](LET c   == playbackCount
              cap == maxPlaylistSize(c)
          IN  /\ cap = (IF 5 + FloorTenth(c) < 10 THEN 5 + FloorTenth(c) ELSE 10)
              /\ cap >= 5 /\ cap <= 10
              /\ isContinuousPlayUnlocked(c) <=> (c >= 60)
              /\ (c = 59 => ~isContinuousPlayUnlocked(c)))
    /\ [][playbackCount' >= playbackCount =>
            maxPlaylistSize(playbackCount') >= maxPlaylistSize(playbackCount)]_vars

\* The counter went from 59 to 60 and the flag is on at capacity 10.
C11_Witness ==
    /\ INITIAL_PLAYBACK_COUNT = 59
    /\ playbackCount = 60
    /\ isContinuousPlayUnlocked(playbackCount)
    /\ maxPlaylistSize(playbackCount) = 10

\* C12: within one page load the in-memory counter never decreases, from its
\* initial value through reconciliation and every request, and each
\* record-playback event raises it by exactly one.
C12_CounterMonotone ==
    [][/\ session' = session => playbackCount' >= playbackCount
       /\ handleSongEnd => playbackCount' = playbackCount + 1]_vars

\* C13: when a Document write fails, the stars, playlist and counter the
\* mutation set stay in memory, the UI stays ready, and the mutation
\* requests stay accepted: each is enabled whenever the UI is ready and is
\* applied to the live model.
C13_FailedWriteKeepsModel ==
    /\ []((isDataLoaded /\ ops > 0) =>
            /\ ENABLED handleSongEnd
            /\ \A id \in StarIds(stars) : ENABLED handleStarView(id))
    /\ [][/\ (WriteSettles /\ docStore' = docStore) =>
                UNCHANGED <<stars, playlist, playbackCount, isDataLoaded>>
          /\ handleSongEnd => playbackCount' = playbackCount + 1
          /\ \A id \in StarIds(stars) :
                handleStarView(id) => stars' = ViewedStars(stars, id)]_vars

\* Two mutations are in memory although every Document write has failed.
C13_Witness ==
    /\ initPc = "first-run"
    /\ ~PromotesSeed
    /\ docStore = None
    /\ writes = <<>>
    /\ playbackCount = INITIAL_PLAYBACK_COUNT + 1
    /\ \E i \in 1..Len(stars) : stars[i].viewCount = 1

\* The non-empty asset ids a Document carries.
DocAssetIds(doc) ==
    (UNION {{Get(doc.stars[i].imageAssetIds)[j] :
                j \in 1..Len(Get(doc.stars[i].imageAssetIds))} :
            i \in {n \in 1..Len(doc.stars) : IsSome(doc.stars[n].imageAssetIds)}}
     \cup {Get(doc.playlist[i].assetId) :
            i \in {n \in 1..Len(doc.playlist) : IsSome(doc.playlist[n].assetId)}})
    \ {NoAssetId}

\* C14: when a mutation issues a Document write, every non-empty asset id of
\* that Document is one an Asset Store write has already returned, and the
\* ids returned within the same request are entries of the Asset Store.
C14_AssetStoredBeforeDocument ==
    [][Len(writes') = Len(writes) + 1 =>
        \A a \in DocAssetIds(writes'[Len(writes')]) :
            /\ a \in 1..uuid'
            /\ a > uuid => a \in DOMAIN assets']_vars

\* A Document write carrying the id of a stored image is in flight.
C14_Witness ==
    \E w \in 1..Len(writes) :
        \E i \in 1..Len(writes[w].stars) :
            /\ IsSome(writes[w].stars[i].imageAssetIds)
            /\ \E a \in DocAssetIds(writes[w]) :
                  /\ a \in DOMAIN assets
                  /\ \E j \in 1..Len(Get(writes[w].stars[i].imageAssetIds)) :
                        Get(writes[w].stars[i].imageAssetIds)[j] = a

\* A handler suspended at DB.saveAsset resumes in this step.
Resumes(kind) ==
    /\ inflight # <<>>
    /\ Head(inflight).kind = kind
    /\ inflight' = Tail(inflight)
    /\ session' = session

\* C15: when every openDB call rejects, startup still makes the UI ready,
\* nothing is written to either store, and every mutation request is applied
\* to the live model: record playback raises the counter, increment view
\* raises the star's view count, an accepted append-song request adds the
\* song to the playlist and an attach request activates the edited star.
C15_InMemoryOnly ==
    [][/\ (initPc = "load" /\ initPc' # "load") => isDataLoaded'
       /\ assets' = <<>> /\ docStore' = None
       /\ handleSongEnd => playbackCount' = playbackCount + 1
       /\ \A id \in StarIds(stars) :
             handleStarView(id) => stars' = ViewedStars(stars, id)
       /\ Resumes("upload") =>
             /\ Len(playlist') = Len(playlist) + 1
             /\ playlist'[Len(playlist')].name = Get(Head(inflight).file)
       /\ Resumes("launch") =>
             \E i \in 1..Len(stars') :
                /\ stars'[i].id = Get(Head(inflight).editingStarId)
                /\ stars'[i].isActive
                /\ Len(stars'[i].images) = Len(Head(inflight).tempImages)]_vars

\* C16: each successful saveAsset call stores its binary under an id that
\* was not in the Asset Store and was never returned before, and no step
\* changes the binary of an entry that stays in the store.
C16_AssetNeverOverwritten ==
    [][/\ \A a \in (uuid + 1)..uuid' :
             a \in DOMAIN assets' /\ a \notin DOMAIN assets
       /\ \A a \in DOMAIN assets \cap DOMAIN assets' : assets'[a] = assets[a]
       /\ DOMAIN assets' \ DOMAIN assets = (uuid + 1)..uuid'
       /\ Resumes("upload") /\ uuid' = uuid + 1 =>
             assets'[uuid + 1] = Get(Head(inflight).file)]_vars

\* Two different binaries are stored under two ids.
C16_Witness ==
    /\ 1 \in DOMAIN assets /\ 2 \in DOMAIN assets
    /\ assets[1] # assets[2]

C18_ExportHasNoAssetIds ==
    IsSome(exported) =>
        /\ \A i \in 1..Len(Get(exported).stars) :
              Get(exported).stars[i].imageAssetIds = None
        /\ \A i \in 1..Len(Get(exported).playlist) :
              Get(exported).playlist[i].assetId = None

\* A song that carries an asset id in the live model is in the export.
C18_Witness ==
    /\ IsSome(exported)
    /\ \E i \in 1..Len(playlist) :
          /\ IsSome(playlist[i].assetId)
          /\ TruthyId(Get(playlist[i].assetId))
          /\ \E j \in 1..Len(Get(exported).playlist) :
                Get(exported).playlist[j].id = playlist[i].id

\* A reference in portable form: an inline data: payload or a static path.
Portable(u) == u.k \in {"data", "path"}

\* An export that produced its text.
Exports == handleExportData /\ alert' # "export failed"

\* C19: every image or song reference of the live model that is already
\* portable (inline data: payload or static path) appears in the export
\* unchanged.
C19_PortablePassThrough ==
    [][Exports =>
        /\ \A i \in 1..Len(stars) : \A j \in 1..Len(stars[i].images) :
              Portable(stars[i].images[j]) =>
                  Get(exported').stars[i].images[j] = stars[i].images[j]
        /\ \A i \in 1..Len(playlist) :
              Portable(playlist[i].url) =>
                  Get(exported').playlist[i].url = playlist[i].url]_vars

\* The inline encoding of the binary a reference stands for.
Transcoded(u) == IF u.k = "data" THEN u ELSE [k |-> "data", c |-> u.c, s |-> 0]

\* C20: an export of part_001 whose asset fetches fail for some set of assets
\* still produces its text: each failed asset appears as its original
\* reference and every other asset inline, all other fields as in the live
\* model.
C20_ExportIsolatesFailures ==
    [][(Exports /\ variant = "part_001") =>
        /\ IsSome(exported')
        /\ \E failed \in SUBSET Fetches(stars, playlist) :
              /\ Len(Get(exported').stars) = Len(stars)
              /\ Len(Get(exported').playlist) = Len(playlist)
              /\ \A i \in 1..Len(stars) :
                    /\ Len(Get(exported').stars[i].images) = Len(stars[i].images)
                    /\ Get(exported').stars[i].id = stars[i].id
                    /\ Get(exported').stars[i].text = stars[i].text
                    /\ \A j \in 1..Len(stars[i].images) :
                          Get(exported').stars[i].images[j] =
                              IF <<"img", i, j>> \in failed
                              THEN stars[i].images[j]
                              ELSE Transcoded(stars[i].images[j])
              /\ \A i \in 1..Len(playlist) :
                    /\ Get(exported').playlist[i].id = playlist[i].id
                    /\ Get(exported').playlist[i].url =
                          IF <<"song", i>> \in failed
                          THEN playlist[i].url
                          ELSE Transcoded(playlist[i].url)
        /\ Get(exported').playbackCount = playbackCount]_vars

\* An export in which the fetch of a star's image failed and a song was
\* transcoded.
C20_Witness ==
    /\ variant = "part_001"
    /\ alert = "data copied"
    /\ IsSome(exported)
    /\ \E i \in 1..Len(Get(exported).stars) :
          \E j \in 1..Len(Get(exported).stars[i].images) :
              Get(exported).stars[i].images[j].k \in {"path", "blob"}
    /\ \E i \in 1..Len(playlist) :
          /\ playlist[i].url.k # "data"
          /\ i <= Len(Get(exported).playlist)
          /\ Get(exported).playlist[i].url = Transcoded(playlist[i].url)

\* What is visible of a star: its id, text and activation flag.
Visible(st) == <<st.id, st.text, st.isActive>>

\* A song by id and name.
Named(song) == <<song.id, song.name>>

\* C21 as stated: the export of the unmutated live model has the seed's
\* entities in order with the same id, text and activation flag, the seed's
\* songs by id and name, and the seed's counter; the export changes neither
\* the live model nor a store.
C21_RoundTripAsStated ==
    [][Exports =>
        /\ [i \in 1..Len(Get(exported').stars) |-> Visible(Get(exported').stars[i])]
              = [i \in 1..Len(seed.stars) |-> Visible(seed.stars[i])]
        /\ [i \in 1..Len(Get(exported').playlist) |-> Named(Get(exported').playlist[i])]
              = [i \in 1..Len(seed.playlist) |-> Named(seed.playlist[i])]
        /\ Get(exported').playbackCount = seed.playbackCount
        /\ UNCHANGED <<modelVars, storeVars, writes>>]_vars

\* The seed's songs the live playlist holds: all of them when startup kept
\* the first render, those with a url when it reconciled a Document.
SeedSongsKept ==
    IF initPc = "restored" THEN SelectSeq(seed.playlist, HasUrl) ELSE seed.playlist

\* C21 amended: for a seed with at least one entity, the export of the
\* unmutated live model has the seed's entities in order with the same id,
\* text and activation flag, the seed's counter, and the seed's songs by id
\* and name, less the songs without a url once the seed was reconciled from
\* the Document Store; the export changes neither the live model nor a store.
C21_RoundTrip ==
    [][Exports =>
        /\ Len(seed.stars) > 0 =>
              /\ [i \in 1..Len(Get(exported').stars) |-> Visible(Get(exported').stars[i])]
                    = [i \in 1..Len(seed.stars) |-> Visible(seed.stars[i])]
              /\ [i \in 1..Len(Get(exported').playlist) |->
                        Named(Get(exported').playlist[i])]
                    = [i \in 1..Len(SeedSongsKept) |-> Named(SeedSongsKept[i])]
        /\ Get(exported').playbackCount = seed.playbackCount
        /\ UNCHANGED <<modelVars, storeVars, writes>>]_vars

\* The promoted seed was reconciled from the Document Store and exported.
C21_Witness ==
    /\ initPc = "restored"
    /\ Len(seed.stars) > 0
    /\ IsSome(exported)
    /\ Len(Get(exported).stars) = Len(seed.stars)
    /\ Get(docStore) = SeedDocument

\* The attach request for the star `id` takes effect in this step.
AttachOf(id) ==
    \/ handleLaunchStar /\ inflight' = inflight /\ editingStarId = Some(id)
    \/ Resumes("launch") /\ Head(inflight).editingStarId = Some(id)
          /\ Len(writes') = Len(writes) + 1

\* C22: after startup, the view counter of a star changes only when an
\* increment-view request for that star raises it by one, changing no other
\* star and no other field, or when an attach request for that star sets it
\* to zero.
C22_ViewCountTwoWays ==
    [][(isDataLoaded /\ isDataLoaded') =>
        \A i \in 1..Len(stars) :
            (i <= Len(stars') /\ stars'[i].viewCount # stars[i].viewCount) =>
                \/ /\ stars'[i] = [stars[i] EXCEPT !.viewCount = stars[i].viewCount + 1]
                   /\ \A j \in 1..Len(stars) : j # i => stars'[j] = stars[j]
                \/ /\ AttachOf(stars[i].id)
                   /\ stars'[i].viewCount = 0]_vars

\* The identity and the placement of every star, in order.
Placement(list) == [i \in 1..Len(list) |-> <<list[i].id, list[i].position>>]

\* C23: once the UI is ready, no step adds, removes or reorders stars or
\* changes a star's id or position, and the activation flag of a star, once
\* true, stays true.
C23_StarsFixedAndActivated ==
    [][(isDataLoaded /\ isDataLoaded') =>
        /\ Placement(stars') = Placement(stars)
        /\ \A i \in 1..Len(stars) :
              (i <= Len(stars') /\ stars[i].isActive) => stars'[i].isActive]_vars

\* The last Document write in flight completes with success while no handler
\* is suspended: every issued Document write has completed.
LastWriteStored ==
    /\ WriteSettles
    /\ writes' = <<>>
    /\ inflight = <<>>
    /\ isDataLoaded
    /\ docStore' = saveGameState(Head(writes))

\* C24: once every issued Document write has completed, the Document Store
\* holds the stars, the playlist and the counter of the live model.
C24_StoreConvergesToModel ==
    [][LastWriteStored =>
        docStore' = Some(GameState(stars, playlist, playbackCount))]_vars

\* C25: no mutation is accepted before reconciliation has finished: while
\* isDataLoaded is false no handler can run and only init() sets the stars,
\* the playlist and the counter, and init() sets them only before
\* isDataLoaded becomes true.
C25_NoMutationBeforeReady ==
    /\ [](~isDataLoaded =>
            /\ ~ENABLED handleSongEnd
            /\ ~ENABLED handleLaunchStar
            /\ \A id \in StarIds(stars) :
                  ~ENABLED handleStarView(id) /\ ~ENABLED handleStarClick(id)
            /\ \A file \in Files :
                  ~ENABLED handleMusicUpload(file) /\ ~ENABLED processFiles(file)
            /\ \A list \in PlaylistEdits(playlist) :
                  ~ENABLED handlePlaylistUpdate(list))
    /\ [][/\ (~isDataLoaded /\ session' = session /\ modelVars' # modelVars)
                => (InitAssets /\ isDataLoaded')
          /\ (InitLoad \/ InitAssets) => (~isDataLoaded /\ inflight = <<>>)]_vars

\* A song has finished after the model was reconciled from a Document.
C25_Witness ==
    /\ initPc = "restored"
    /\ isDataLoaded
    /\ writes # <<>>
    /\ IsSome(docStore)
    /\ playbackCount = Get(docStore).playbackCount + 1

C27_PlaylistWithinCapacity ==
    /\ Len(playlist) <= Min(10, 5 + FloorTenth(playbackCount))
    /\ Len(playlist) <= maxPlaylistSize(playbackCount)

\* Two appends have settled on a playlist at capacity, and the song of the
\* first is not in it.
C27_Witness ==
    /\ genId = 2
    /\ inflight = <<>>
    /\ Len(playlist) = maxPlaylistSize(playbackCount)
    /\ \E i \in 1..Len(playlist) : playlist[i].id = GeneratedId(2)
    /\ \A i \in 1..Len(playlist) : playlist[i].id # GeneratedId(1)

\* The oldest suspended handler resumes with a rejected DB.saveAsset: fewer
\* assets were stored than the handler had files to save.
AssetWriteFails(kind) ==
    /\ Resumes(kind)
    /\ uuid' - uuid < (IF kind = "upload" THEN 1
                       ELSE FilesBefore(Head(inflight).tempImages,
                                        Len(Head(inflight).tempImages)))

\* C28: when an Asset Store write fails during append-song or attach, the
\* mutation is abandoned as a whole: the stars, the playlist, the counter and
\* the current song index stay as they are, no Document write is issued, and
\* for attach the editing form (selected star, pending images, text, open
\* modal) is kept.
C28_AssetFailureAbandons ==
    [][/\ AssetWriteFails("upload") => UNCHANGED <<modelVars, writes>>
       /\ AssetWriteFails("launch") => UNCHANGED <<modelVars, writes, formVars>>]_vars

\* An attach has failed on its asset write and the form is still filled in.
C28_Witness ==
    /\ alert = "error saving"
    /\ inflight = <<>>
    /\ writes = <<>>
    /\ isUploadModalOpen
    /\ IsSome(editingStarId)
    /\ \E i \in 1..Len(tempImages) : IsSome(tempImages[i].file)

\* C29: within a session the counter in the Document Store never decreases
\* from one completed Document write to the next, also when a song finishes
\* while append-song or attach awaits its asset write.
C29_StoredCounterMonotone ==
    [][(WriteSettles /\ IsSome(docStore) /\ session' = session)
        => Get(docStore').playbackCount >= Get(docStore).playbackCount]_vars

\* A star without its images list.
WithoutImages(s) == [s EXCEPT !.images = <<>>]

\* C30: when init() sets the live model from the Document it loaded, the
\* live stars are the Document's stars in the same order with every field but
\* images unchanged (id, position, text, isActive, viewCount, imageAssetIds),
\* and the live counter is the Document's counter, whatever the seed holds.
C30_DocumentWinsOverSeed ==
    [][RestoreStep =>
        LET doc == Get(savedState)
        IN  /\ Len(stars') = Len(doc.stars)
            /\ \A i \in 1..Len(doc.stars) :
                  WithoutImages(stars'[i]) = WithoutImages(doc.stars[i])
            /\ playbackCount' = doc.playbackCount]_vars

\* The second page load has restored a star viewed in the first, at a counter
\* one above the seed's.
C30_Witness ==
    /\ initPc = "restored"
    /\ session = 2
    /\ writes = <<>>
    /\ playbackCount = INITIAL_PLAYBACK_COUNT + 1
    /\ \E i \in 1..Len(stars) : stars[i].viewCount = 1

====
